---------------------------- MODULE Spec2Model ----------------------------
(***************************************************************************)
(* Models of four of the repository's demonstration programs:              *)
(*   - the typestate DataProcessor        (src/2025-10-30)                 *)
(*   - the DelayedValue future + executor (src/2025-10-28)                 *)
(*   - the fixed-size ConstString<N>      (src/2025-10-29)                 *)
(*   - the WhimsicalAllocator             (src/2025-10-31)                 *)
(* The programs share nothing, so each has its own variables and its own   *)
(* specification; a specification leaves the other programs' variables     *)
(* untouched.                                                              *)
(***************************************************************************)
EXTENDS Integers, Sequences, FiniteSets, TLC

VARIABLES
  procs,       \* DataProcessor: slot -> [state, data, origin]
  calls,       \* DataProcessor: the method calls made so far (observations)
  vlog,        \* DataProcessor: what each validate call was given and returned
  lastOutput,  \* DataProcessor: what get_processed_data last returned
  now,         \* future demo: the monotonic clock, in milliseconds
  wakes,       \* future demo: calls of wake_by_ref on the context's waker
  dv,          \* DelayedValue polled directly: [start, duration, value]
  dvLog,       \* DelayedValue polled directly: one record per poll made
  mainPc,      \* executor: where main is
  top,         \* executor: the boxed top-level future (the async block of main)
  topLast,     \* executor: what the last poll of the top-level future returned
  final_result,     \* executor: the value main printed as the final result
  pollsAfterReady,  \* executor: polls of the top-level future made after Ready
  csN,         \* ConstString: the capacity N of the type
  csData,      \* ConstString: data, the N bytes (index 0..N-1)
  csLen,       \* ConstString: len
  csPushed,    \* ConstString: the strings pushed with success, concatenated
  csLast,      \* ConstString: the last push_str call and what it returned
  csCalls,     \* ConstString: push_str calls made
  allocated_bytes,  \* allocator: the counter of bytes handed out
  heap,        \* allocator: the live blocks of the System allocator
  alLast       \* allocator: the last alloc call and what it did

dpVars == <<procs, calls, vlog, lastOutput>>
dvVars == <<dv, dvLog>>
exVars == <<mainPc, top, topLast, final_result, pollsAfterReady>>
csVars == <<csN, csData, csLen, csPushed, csLast, csCalls>>
alVars == <<allocated_bytes, heap, alLast>>

fuVars == <<now, wakes, dv, dvLog, mainPc, top, topLast, final_result, pollsAfterReady>>

\* What each program leaves alone: everything of the other programs.
notDP == <<fuVars, csVars, alVars>>
notFU == <<dpVars, csVars, alVars>>
notCS == <<dpVars, fuVars, alVars>>
notAL == <<dpVars, fuVars, csVars>>

vars == <<procs, calls, vlog, lastOutput, now, wakes, dv, dvLog,
          mainPc, top, topLast, final_result, pollsAfterReady,
          csN, csData, csLen, csPushed, csLast, csCalls,
          allocated_bytes, heap, alLast>>

(***************************************************************************)
(*                     DataProcessor (typestate pattern)                   *)
(***************************************************************************)

MaxDataLen == 2    \* characters in the data given to new

\* Characters the data is drawn from: lower case, upper case, a space, and
\* a character whose upper case is two characters long.
DataChars == {"h", "W", " ", "ß"}

RECURSIVE SeqsUpTo(_, _)
SeqsUpTo(S, n) ==
  IF n = 0 THEN {<<>>}
  ELSE LET shorter == SeqsUpTo(S, n - 1)
       IN  shorter \cup {Append(s, c) : s \in {t \in shorter : Len(t) = n - 1}, c \in S}

DataStrings == SeqsUpTo(DataChars, MaxDataLen)

\* char::to_uppercase
UpperChar(c) ==
  CASE c = "h" -> <<"H">>
    [] c = "ß" -> <<"S", "S">>
    [] OTHER   -> <<c>>

\* str::to_uppercase
RECURSIVE to_uppercase(_)
to_uppercase(s) ==
  IF s = <<>> THEN <<>> ELSE UpperChar(Head(s)) \o to_uppercase(Tail(s))

\* The processors main creates. They share nothing, so each lives its own
\* lifecycle whatever the others do.
Slots == {"processor", "invalid_processor"}

NoProc == [state |-> "None", data |-> <<>>, origin |-> "none"]

\* DataProcessor<Initial>::new
new(data) == [state |-> "Initial", data |-> data, origin |-> "new"]

\* The receiver types of the three impl blocks: a method exists only on a
\* DataProcessor whose State parameter is the block's.
CanValidate(p) == procs[p].state = "Initial"

CanProcess_AnyState(p) == procs[p].state \in {"Initial", "Validated"}
CanProcess(p) == procs[p].state = "Validated"

CanGet(p) == procs[p].state = "Processed"

\* DataProcessor<Initial>::validate, as a function of the receiver: the
\* Result it returns. self is consumed either way.
validate_MinLen2(self) ==
  IF Len(self.data) <= 1
    THEN [ok |-> FALSE, err |-> "Data cannot be empty", value |-> NoProc]
    ELSE [ok |-> TRUE, err |-> "",
          value |-> [state |-> "Validated", data |-> self.data, origin |-> "validate"]]
validate(self) ==
  IF self.data = <<>>
    THEN [ok |-> FALSE, err |-> "Data cannot be empty", value |-> NoProc]
    ELSE [ok |-> TRUE, err |-> "",
          value |-> [state |-> "Validated", data |-> self.data, origin |-> "validate"]]

\* DataProcessor<Validated>::process
process(self) ==
  [state |-> "Processed", data |-> to_uppercase(self.data), origin |-> "process"]

\* DataProcessor<Processed>::get_processed_data
get_processed_data(self) == self.data

Call(op, before, after) ==
  [op |-> op, from |-> before.state, origin |-> before.origin, to |-> after.state]

\* let processor = DataProcessor::new(data)
DPNew(p, data) ==
  /\ procs[p].state = "None"
  /\ procs' = [procs EXCEPT ![p] = new(data)]
  /\ UNCHANGED <<calls, vlog, lastOutput, notDP>>

\* processor.validate(): Ok(p) rebinds the slot to the Validated processor,
\* Err(e) leaves nothing (self was moved into the call and dropped).
DPValidate(p) ==
  /\ CanValidate(p)
  /\ LET r     == validate(procs[p])
         after == IF r.ok THEN r.value
                  ELSE [state |-> "Dropped", data |-> <<>>, origin |-> procs[p].origin]
     IN  /\ procs' = [procs EXCEPT ![p] = after]
         /\ calls' = calls \cup {Call("validate", procs[p], after)}
         /\ vlog' = vlog \cup {[input |-> procs[p].data, ok |-> r.ok, err |-> r.err,
                                 out |-> r.value, after |-> after.state]}
  /\ UNCHANGED <<lastOutput, notDP>>

\* validated_processor.process()
DPProcess(p) ==
  /\ CanProcess(p)
  /\ LET after == process(procs[p])
     IN  /\ procs' = [procs EXCEPT ![p] = after]
         /\ calls' = calls \cup {Call("process", procs[p], after)}
  /\ UNCHANGED <<vlog, lastOutput, notDP>>

\* processed_processor.get_processed_data(): borrows, the processor stays.
DPGet(p) ==
  /\ CanGet(p)
  /\ lastOutput' = <<"some", get_processed_data(procs[p])>>
  /\ calls' = calls \cup {Call("get_processed_data", procs[p], procs[p])}
  /\ UNCHANGED <<procs, vlog, notDP>>

DPNext ==
  \/ \E p \in Slots, data \in DataStrings : DPNew(p, data)
  \/ \E p \in Slots : DPValidate(p)
  \/ \E p \in Slots : DPProcess(p)
  \/ \E p \in Slots : DPGet(p)


(***************************************************************************)
(*                 DelayedValue future and blocking executor               *)
(***************************************************************************)

DELAY_MS == 500    \* Duration::from_millis(500) in async_block
VALUE == 42        \* the value async_block's DelayedValue carries
SLEEP_MS == 10     \* thread::sleep(Duration::from_millis(10)) in main

MaxDuration == 3   \* durations a directly polled DelayedValue is built with
MaxClock == 5      \* how far the clock runs while one is polled directly
MaxPolls == 4      \* polls made of a directly polled DelayedValue
MaxSleepJitter == 1  \* how much longer than asked thread::sleep may sleep

Values == {VALUE, 7}

None == <<>>
Some(v) == <<v>>

\* DelayedValue::new: start is the clock reading at construction.
DelayedValue_new(duration, value, t) ==
  [start |-> t, duration |-> duration, value |-> Some(value)]

\* Instant::elapsed
elapsed(start, t) == t - start

\* <DelayedValue as Future>::poll at clock reading t: the future afterwards,
\* what the call returns (or that it panicked), and whether it called
\* cx.waker().wake_by_ref().
poll_NoTake(self, t) ==
  IF elapsed(self.start, t) >= self.duration
    THEN IF self.value = None
           THEN [self |-> self, ret |-> <<"Panic">>, woke |-> FALSE]
           ELSE [self |-> self, ret |-> <<"Ready", self.value[1]>>, woke |-> FALSE]
    ELSE [self |-> self, ret |-> <<"Pending">>, woke |-> TRUE]
poll_Early(self, t) ==
  IF elapsed(self.start, t) + 1 >= self.duration
    THEN IF self.value = None
           THEN [self |-> self, ret |-> <<"Panic">>, woke |-> FALSE]
           ELSE [self |-> [self EXCEPT !.value = None],
                 ret |-> <<"Ready", self.value[1]>>, woke |-> FALSE]
    ELSE [self |-> self, ret |-> <<"Pending">>, woke |-> TRUE]
poll(self, t) ==
  IF elapsed(self.start, t) >= self.duration
    THEN IF self.value = None
           THEN [self |-> self, ret |-> <<"Panic">>, woke |-> FALSE]
           ELSE [self |-> [self EXCEPT !.value = None],
                 ret |-> <<"Ready", self.value[1]>>, woke |-> FALSE]
    ELSE [self |-> self, ret |-> <<"Pending">>, woke |-> TRUE]

NoDV == [start |-> 0, duration |-> 0, value |-> None]

\* The future an async_block() call returns: nothing of its body has run
\* until it is first polled.
NewAsyncBlock == [state |-> "Unresumed", dv |-> NoDV]
NoAsyncBlock == [state |-> "Dropped", dv |-> NoDV]

\* Poll of async_block's future at clock reading t.
async_block_poll(ab, t) ==
  IF ab.state \notin {"Unresumed", "AwaitDelay"}
    THEN [ab |-> ab, ret |-> <<"Panic">>, wakes |-> 0]
    ELSE LET started == IF ab.state = "Unresumed"
                          THEN [state |-> "AwaitDelay",
                                dv |-> DelayedValue_new(DELAY_MS, VALUE, t)]
                          ELSE ab
             r == poll(started.dv, t)
         IN  CASE r.ret[1] = "Ready" ->
                    [ab |-> [state |-> "Returned", dv |-> r.self], ret |-> r.ret, wakes |-> 0]
               [] r.ret[1] = "Pending" ->
                    [ab |-> [started EXCEPT !.dv = r.self], ret |-> r.ret,
                     wakes |-> IF r.woke THEN 1 ELSE 0]
               [] OTHER ->
                    [ab |-> [started EXCEPT !.dv = r.self], ret |-> <<"Panic">>, wakes |-> 0]

NewTop == [state |-> "Unresumed", result1 |-> 0, ab |-> NoAsyncBlock]

\* The second half of main's async block: result2 = async_block().await,
\* then result1 + result2.
top_await2(s, t) ==
  LET r == async_block_poll(s.ab, t)
  IN  CASE r.ret[1] = "Ready" ->
             [top |-> [state |-> "Returned", result1 |-> s.result1, ab |-> NoAsyncBlock],
              ret |-> <<"Ready", s.result1 + r.ret[2]>>, wakes |-> r.wakes]
        [] r.ret[1] = "Pending" ->
             [top |-> [s EXCEPT !.ab = r.ab], ret |-> r.ret, wakes |-> r.wakes]
        [] OTHER ->
             [top |-> [s EXCEPT !.state = "Panicked", !.ab = r.ab], ret |-> <<"Panic">>,
              wakes |-> r.wakes]

\* The first half: result1 = async_block().await, running on into the
\* second half in the same poll once the first await is ready.
top_await1(s, t) ==
  LET r == async_block_poll(s.ab, t)
  IN  CASE r.ret[1] = "Ready" ->
             top_await2([state |-> "Await2", result1 |-> r.ret[2], ab |-> NewAsyncBlock], t)
        [] r.ret[1] = "Pending" ->
             [top |-> [s EXCEPT !.ab = r.ab], ret |-> r.ret, wakes |-> r.wakes]
        [] OTHER ->
             [top |-> [s EXCEPT !.state = "Panicked", !.ab = r.ab], ret |-> <<"Panic">>,
              wakes |-> r.wakes]

\* Poll of the top-level future at clock reading t. An async block that has
\* returned panics when it is polled again.
top_poll(s, t) ==
  CASE s.state = "Unresumed" ->
         top_await1([state |-> "Await1", result1 |-> 0, ab |-> NewAsyncBlock], t)
    [] s.state = "Await1" -> top_await1(s, t)
    [] s.state = "Await2" -> top_await2(s, t)
    [] OTHER -> [top |-> [s EXCEPT !.state = "Panicked"], ret |-> <<"Panic">>, wakes |-> 0]

----------------------------------------------------------------------------
\* A DelayedValue polled directly by a caller that may poll at any time, also
\* after the value was yielded and after a poll has panicked (the panic
\* unwinds out of poll and leaves the DelayedValue as it was).

DVTick ==
  /\ now < MaxClock
  /\ now' = now + 1
  /\ UNCHANGED <<wakes, dvVars, exVars, notFU>>

DVPoll ==
  /\ Len(dvLog) < MaxPolls
  /\ LET r == poll(dv, now)
     IN  /\ dv' = r.self
         /\ wakes' = wakes + (IF r.woke THEN 1 ELSE 0)
         /\ dvLog' = Append(dvLog, [elapsed |-> elapsed(dv.start, now),
                                    before |-> dv, ret |-> r.ret, after |-> r.self,
                                    wakesBefore |-> wakes,
                                    wakesAfter |-> wakes + (IF r.woke THEN 1 ELSE 0)])
  /\ UNCHANGED <<now, exVars, notFU>>

DVNext == DVTick \/ DVPoll

----------------------------------------------------------------------------
\* main: the blocking executor loop.

\* println!("Starting main..."), the async block is boxed and pinned, the
\* no-op waker and the context are made.
ExStart ==
  /\ mainPc = "start"
  /\ top' = NewTop
  /\ mainPc' = "loop"
  /\ UNCHANGED <<now, wakes, dvVars, topLast, final_result, pollsAfterReady, notFU>>

\* match future.as_mut().poll(&mut context)
ExOnReady_NoBreak(r) ==
  /\ final_result' = Some(r.ret[2])
  /\ mainPc' = "loop"
ExOnReady(r) ==
  /\ final_result' = Some(r.ret[2])
  /\ mainPc' = "after_loop"

ExPoll ==
  /\ mainPc = "loop"
  /\ LET r == top_poll(top, now)
     IN  /\ top' = r.top
         /\ topLast' = r.ret
         /\ wakes' = wakes + r.wakes
         /\ pollsAfterReady' = pollsAfterReady + (IF top.state = "Returned" THEN 1 ELSE 0)
         /\ CASE r.ret[1] = "Ready" -> ExOnReady(r)
              [] r.ret[1] = "Pending" -> mainPc' = "sleep" /\ UNCHANGED final_result
              [] OTHER -> mainPc' = "panicked" /\ UNCHANGED final_result
  /\ UNCHANGED <<now, dvVars, notFU>>

\* thread::sleep(Duration::from_millis(10)): at least that long.
ExSleep ==
  /\ mainPc = "sleep"
  /\ \E j \in 0..MaxSleepJitter : now' = now + SLEEP_MS + j
  /\ mainPc' = "loop"
  /\ UNCHANGED <<wakes, dvVars, top, topLast, final_result, pollsAfterReady, notFU>>

\* println!("Finished main.")
ExFinish ==
  /\ mainPc = "after_loop"
  /\ mainPc' = "finished"
  /\ UNCHANGED <<now, wakes, dvVars, top, topLast, final_result, pollsAfterReady, notFU>>

ExNext == ExStart \/ ExPoll \/ ExSleep \/ ExFinish


(***************************************************************************)
(*                     ConstString<N>: fixed-size buffer                   *)
(***************************************************************************)

SmallCap == 3      \* a small capacity, besides the 5 and 16 main uses
MaxChars == 1      \* characters in the generated strings given to push_str
MaxPushes == 4     \* push_str calls made on one buffer

\* Capacities N the type is instantiated with (N = 0 does not compile with
\* push_str: the bound LessThanCapacity<N> needs N - 1).
Capacities == {SmallCap, 5, 16}

\* Characters of one, two and three bytes: 'A', U+00E9, U+20AC.
CSChars == {65, 233, 8364}

\* The literals of main.
Hello == <<72, 101, 108, 108, 111, 44, 32>>     \* "Hello, "
World == <<87, 111, 114, 108, 100, 33>>         \* "World!"
TooLong == <<84, 111, 111, 32, 108, 111, 110, 103>>   \* "Too long"

\* A &str is a sequence of Unicode scalar values.
CSInputs == SeqsUpTo(CSChars, MaxChars) \cup {Hello, World, TooLong}

\* The UTF-8 encoding of one scalar value.
Utf8Char(cp) ==
  IF cp < 128 THEN <<cp>>
  ELSE IF cp < 2048 THEN <<192 + (cp \div 64), 128 + (cp % 64)>>
  ELSE IF cp < 65536
    THEN <<224 + (cp \div 4096), 128 + ((cp \div 64) % 64), 128 + (cp % 64)>>
    ELSE <<240 + (cp \div 262144), 128 + ((cp \div 4096) % 64),
           128 + ((cp \div 64) % 64), 128 + (cp % 64)>>

\* str::as_bytes
RECURSIVE as_bytes(_)
as_bytes(s) == IF s = <<>> THEN <<>> ELSE Utf8Char(Head(s)) \o as_bytes(Tail(s))

IsCont(b) == b >= 128 /\ b <= 191

\* Bytes of the character a lead byte starts, 0 when it starts none.
CharWidth(b) ==
  IF b < 128 THEN 1
  ELSE IF b >= 194 /\ b <= 223 THEN 2
  ELSE IF b >= 224 /\ b <= 239 THEN 3
  ELSE IF b >= 240 /\ b <= 244 THEN 4
  ELSE 0

\* The scalar value the first w bytes encode.
DecodeChar(bytes, w) ==
  CASE w = 1 -> bytes[1]
    [] w = 2 -> (bytes[1] - 192) * 64 + (bytes[2] - 128)
    [] w = 3 -> (bytes[1] - 224) * 4096 + (bytes[2] - 128) * 64 + (bytes[3] - 128)
    [] OTHER -> (bytes[1] - 240) * 262144 + (bytes[2] - 128) * 4096
                  + (bytes[3] - 128) * 64 + (bytes[4] - 128)

\* Whether bytes start with one complete, well-formed character.
StartsWithChar(bytes) ==
  /\ bytes # <<>>
  /\ LET w == CharWidth(bytes[1])
     IN  /\ w > 0
         /\ Len(bytes) >= w
         /\ \A i \in 2..w : IsCont(bytes[i])
         /\ LET cp == DecodeChar(bytes, w)
            IN  CASE w = 1 -> TRUE
                  [] w = 2 -> cp >= 128
                  [] w = 3 -> cp >= 2048 /\ ~(cp >= 55296 /\ cp <= 57343)
                  [] OTHER -> cp >= 65536 /\ cp <= 1114111

\* Valid UTF-8: a concatenation of complete encoded characters.
RECURSIVE ValidUtf8(_)
ValidUtf8(bytes) ==
  \/ bytes = <<>>
  \/ /\ StartsWithChar(bytes)
     /\ ValidUtf8(SubSeq(bytes, CharWidth(bytes[1]) + 1, Len(bytes)))

\* The characters of valid UTF-8 bytes.
RECURSIVE Utf8Decode(_)
Utf8Decode(bytes) ==
  IF bytes = <<>> THEN <<>>
  ELSE LET w == CharWidth(bytes[1])
       IN  <<DecodeChar(bytes, w)>> \o Utf8Decode(SubSeq(bytes, w + 1, Len(bytes)))

\* What a reader makes of bytes that are not valid UTF-8: the characters up
\* to the first malformed byte, or U+FFFD for each malformed byte.
RECURSIVE ValidPrefix(_)
ValidPrefix(bytes) ==
  IF StartsWithChar(bytes)
    THEN LET w == CharWidth(bytes[1])
         IN  <<DecodeChar(bytes, w)>> \o ValidPrefix(SubSeq(bytes, w + 1, Len(bytes)))
    ELSE <<>>

RECURSIVE Lossy(_)
Lossy(bytes) ==
  IF bytes = <<>> THEN <<>>
  ELSE IF StartsWithChar(bytes)
    THEN LET w == CharWidth(bytes[1])
         IN  <<DecodeChar(bytes, w)>> \o Lossy(SubSeq(bytes, w + 1, Len(bytes)))
    ELSE <<65533>> \o Lossy(Tail(bytes))

\* str::is_char_boundary on the bytes of a str.
is_char_boundary(bytes, index) ==
  \/ index = 0
  \/ index = Len(bytes)
  \/ index < Len(bytes) /\ ~IsCont(bytes[index + 1])

\* ConstString::new
ConstString_new(N) == [data |-> [i \in 0..(N - 1) |-> 0], len |-> 0]

Ok == <<"Ok">>
Err(msg) == <<"Err", msg>>

\* ConstString<N>::push_str: the buffer afterwards and the Result.
push_str_AtStart(N, self, s) ==
  LET bytes == as_bytes(s)
  IN  IF self.len + Len(bytes) > N
        THEN [self |-> self, ret |-> Err("String too long for buffer")]
      ELSE IF ~is_char_boundary(bytes, 0)
        THEN [self |-> self, ret |-> Err("Invalid UTF-8 sequence")]
      ELSE [self |-> [data |-> [i \in 0..(N - 1) |->
                                 IF i < Len(bytes) THEN bytes[i + 1] ELSE self.data[i]],
                      len |-> self.len + Len(bytes)],
            ret |-> Ok]
push_str_Truncating(N, self, s) ==
  LET bytes == as_bytes(s)
      fits  == IF self.len + Len(bytes) > N THEN N - self.len ELSE Len(bytes)
  IN  IF ~is_char_boundary(bytes, 0)
        THEN [self |-> self, ret |-> Err("Invalid UTF-8 sequence")]
      ELSE [self |-> [data |-> [i \in 0..(N - 1) |->
                                 IF i >= self.len /\ i < self.len + fits
                                   THEN bytes[i - self.len + 1] ELSE self.data[i]],
                      len |-> self.len + fits],
            ret |-> IF fits < Len(bytes) THEN Err("String too long for buffer") ELSE Ok]
push_str_FullOnly(N, self, s) ==
  LET bytes == as_bytes(s)
  IN  IF self.len + Len(bytes) >= N
        THEN [self |-> self, ret |-> Err("String too long for buffer")]
      ELSE IF ~is_char_boundary(bytes, 0)
        THEN [self |-> self, ret |-> Err("Invalid UTF-8 sequence")]
      ELSE [self |-> [data |-> [i \in 0..(N - 1) |->
                                 IF i >= self.len /\ i < self.len + Len(bytes)
                                   THEN bytes[i - self.len + 1] ELSE self.data[i]],
                      len |-> self.len + Len(bytes)],
            ret |-> Ok]
push_str(N, self, s) ==
  LET bytes == as_bytes(s)
  IN  IF self.len + Len(bytes) > N
        THEN [self |-> self, ret |-> Err("String too long for buffer")]
      ELSE IF ~is_char_boundary(bytes, 0)
        THEN [self |-> self, ret |-> Err("Invalid UTF-8 sequence")]
      ELSE [self |-> [data |-> [i \in 0..(N - 1) |->
                                 IF i >= self.len /\ i < self.len + Len(bytes)
                                   THEN bytes[i - self.len + 1] ELSE self.data[i]],
                      len |-> self.len + Len(bytes)],
            ret |-> Ok]

\* &self.data[..self.len]
Slice(self) == [i \in 1..self.len |-> self.data[i - 1]]

\* <ConstString as Deref>::deref, and with it Display: the strings a read
\* may show. from_utf8_unchecked on bytes that are not valid UTF-8 is
\* undefined behaviour, so the read may show any of several things.
deref(self) ==
  IF ValidUtf8(Slice(self))
    THEN {Utf8Decode(Slice(self))}
    ELSE {ValidPrefix(Slice(self)), Lossy(Slice(self))}

csSelf == [data |-> csData, len |-> csLen]

NoPush == [arg |-> <<>>, ret |-> <<"none">>, lenBefore |-> 0, shownBefore |-> {<<>>}]

\* buffer.push_str(s)
CSPush(s) ==
  /\ csCalls < MaxPushes
  /\ csCalls' = csCalls + 1
  /\ LET r == push_str(csN, csSelf, s)
     IN  /\ csData' = r.self.data
         /\ csLen' = r.self.len
         /\ csPushed' = IF r.ret = Ok THEN csPushed \o s ELSE csPushed
         /\ csLast' = [arg |-> s, ret |-> r.ret, lenBefore |-> csLen,
                       shownBefore |-> deref(csSelf)]
  /\ UNCHANGED <<csN, notCS>>

CSNext == \E s \in CSInputs : CSPush(s)

(***************************************************************************)
(*                          WhimsicalAllocator                             *)
(***************************************************************************)

CHUNK == 4         \* layout.size() % 4
MAX_ALIGN == 4     \* layout.align() > 4
SYS_ALIGN == 4     \* Layout::from_size_align_unchecked(layout.size(), 4)

MaxSize == 9       \* sizes requested
MaxLive == 2       \* blocks the System allocator has room for

NULL == 0
Addrs == 1..MaxLive
Aligns == {1, 2, 4, 8, 16}

\* WhimsicalAllocator::alloc, given what System.alloc returns if asked: the
\* pointer returned, the layout System was asked for (None when it was not
\* asked), and what was added to allocated_bytes.
alloc_NoAlignCheck(layout, sysRet) ==
  IF layout.size % CHUNK # 0
    THEN [ret |-> NULL, sys |-> None, added |-> 0]
  ELSE [ret |-> sysRet, sys |-> Some([size |-> layout.size, align |-> SYS_ALIGN]),
        added |-> IF sysRet # NULL THEN layout.size ELSE 0]
alloc(layout, sysRet) ==
  IF layout.size % CHUNK # 0
    THEN [ret |-> NULL, sys |-> None, added |-> 0]
  ELSE IF layout.align > MAX_ALIGN
    THEN [ret |-> NULL, sys |-> None, added |-> 0]
  ELSE [ret |-> sysRet, sys |-> Some([size |-> layout.size, align |-> SYS_ALIGN]),
        added |-> IF sysRet # NULL THEN layout.size ELSE 0]

NoAlloc == [layout |-> [size |-> 0, align |-> 1], ret |-> NULL, sys |-> None,
            sysRet |-> NULL, called |-> FALSE]

FreeAddrs == Addrs \ {b.ptr : b \in heap}

\* WHIMSICAL_ALLOCATOR.alloc(layout); System returns null or a fresh block.
\* A layout of size 0 is outside GlobalAlloc's contract; alloc passes it on
\* all the same, and what System then returns is any of its outcomes.
ALAlloc(size, align) ==
  /\ \E sysRet \in {NULL} \cup FreeAddrs :
       LET layout == [size |-> size, align |-> align]
           r == alloc(layout, sysRet)
       IN  /\ heap' = IF r.sys # None /\ r.ret # NULL
                        THEN heap \cup {[ptr |-> r.ret, size |-> r.sys[1].size,
                                         align |-> r.sys[1].align, asked |-> layout]}
                        ELSE heap
           /\ allocated_bytes' = allocated_bytes + r.added
           /\ alLast' = [layout |-> layout, ret |-> r.ret, sys |-> r.sys,
                         sysRet |-> IF r.sys # None THEN sysRet ELSE NULL, called |-> TRUE]
  /\ UNCHANGED notAL

\* WHIMSICAL_ALLOCATOR.dealloc(ptr, layout) of a block alloc returned, with
\* the layout it was asked for.
ALDealloc(b) ==
  /\ b \in heap
  /\ heap' = heap \ {b}
  /\ allocated_bytes' = allocated_bytes - b.asked.size
  /\ UNCHANGED <<alLast, notAL>>

ALNext ==
  \/ \E size \in 0..MaxSize, align \in Aligns : ALAlloc(size, align)
  \/ \E b \in heap : ALDealloc(b)

(***************************************************************************)
(*                             Specifications                              *)
(***************************************************************************)

\* The typestate DataProcessor, used by any client that type-checks.
Init ==
  /\ procs = [p \in Slots |-> NoProc]
  /\ calls = {}
  /\ vlog = {}
  /\ lastOutput = <<"none">>
  /\ now = 0
  /\ wakes = 0
  /\ dv = NoDV
  /\ dvLog = <<>>
  /\ mainPc = "start"
  /\ top = NewTop
  /\ topLast = <<"none">>
  /\ final_result = None
  /\ pollsAfterReady = 0
  /\ csN = 16
  /\ csData = ConstString_new(16).data
  /\ csLen = 0
  /\ csPushed = <<>>
  /\ csLast = NoPush
  /\ csCalls = 0
  /\ allocated_bytes = 0
  /\ heap = {}
  /\ alLast = NoAlloc

SpecProcessor == Init /\ [][DPNext]_vars

\* A DelayedValue of any duration and value, polled directly.
InitDelayed ==
  /\ procs = [p \in Slots |-> NoProc]
  /\ calls = {}
  /\ vlog = {}
  /\ lastOutput = <<"none">>
  /\ now = 0
  /\ wakes = 0
  /\ \E d \in 0..MaxDuration, v \in Values : dv = DelayedValue_new(d, v, 0)
  /\ dvLog = <<>>
  /\ mainPc = "start"
  /\ top = NewTop
  /\ topLast = <<"none">>
  /\ final_result = None
  /\ pollsAfterReady = 0
  /\ csN = 16
  /\ csData = ConstString_new(16).data
  /\ csLen = 0
  /\ csPushed = <<>>
  /\ csLast = NoPush
  /\ csCalls = 0
  /\ allocated_bytes = 0
  /\ heap = {}
  /\ alLast = NoAlloc

SpecDelayed == InitDelayed /\ [][DVNext]_vars

\* main of the future demo. It is one sequential thread: whenever it has a
\* next step, it takes it.
SpecExecutor == Init /\ [][ExNext]_vars /\ WF_vars(ExNext)

\* A ConstString<N> of any of the capacities, just constructed.
InitConstString ==
  /\ procs = [p \in Slots |-> NoProc]
  /\ calls = {}
  /\ vlog = {}
  /\ lastOutput = <<"none">>
  /\ now = 0
  /\ wakes = 0
  /\ dv = NoDV
  /\ dvLog = <<>>
  /\ mainPc = "start"
  /\ top = NewTop
  /\ topLast = <<"none">>
  /\ final_result = None
  /\ pollsAfterReady = 0
  /\ csN \in Capacities
  /\ csData = ConstString_new(csN).data
  /\ csLen = ConstString_new(csN).len
  /\ csPushed = <<>>
  /\ csLast = NoPush
  /\ csCalls = 0
  /\ allocated_bytes = 0
  /\ heap = {}
  /\ alLast = NoAlloc

SpecConstString == InitConstString /\ [][CSNext]_vars

\* The allocator, with nothing allocated yet.
SpecAllocator == Init /\ [][ALNext]_vars

(***************************************************************************)
(*                                 Claims                                  *)
(***************************************************************************)

Rank(state) ==
  CASE state = "Initial"   -> 0
    [] state = "Validated" -> 1
    [] state = "Processed" -> 2
    [] OTHER               -> -1

\* C1: the lifecycle is strictly Initial -> Validated -> Processed. Every
\* process call was made on a processor that a successful validate returned,
\* every get_processed_data call on a processor that process returned, and
\* no call took a processor to an earlier state or past the next one (a
\* failed validate leaves no processor at all).
C1_LinearLifecycle ==
  \A c \in calls :
    /\ c.op = "validate" => c.from = "Initial" /\ c.origin = "new"
    /\ c.op = "process" => c.from = "Validated" /\ c.origin = "validate"
    /\ c.op = "get_processed_data" => c.from = "Processed" /\ c.origin = "process"
    /\ c.to # "Dropped" => Rank(c.to) - Rank(c.from) \in {0, 1}
    /\ c.to = "Dropped" => c.op = "validate"

C1_Witness ==
  /\ \E c \in calls : c.op = "process" /\ c.to = "Processed"
  /\ \E c \in calls : c.op = "get_processed_data"
  /\ \E c \in calls : c.op = "validate" /\ c.to = "Dropped"

\* C2: validate returns Err("Data cannot be empty") exactly when the data is
\* the empty string, and then no Validated processor exists; for non-empty
\* data it returns Ok with a Validated processor holding the same data.
C2_ValidateResult ==
  \A r \in vlog :
    /\ ~r.ok <=> r.input = <<>>
    /\ ~r.ok => r.err = "Data cannot be empty" /\ r.out = NoProc /\ r.after = "Dropped"
    /\ r.ok => /\ r.out.state = "Validated" /\ r.after = "Validated"
               /\ r.out.data = r.input

C2_Witness ==
  /\ \E r \in vlog : ~r.ok
  /\ \E r \in vlog : r.ok /\ Len(r.input) >= 1

\* C3: a DelayedValue yields its value at most once. The first poll made
\* once the duration has elapsed returns Ready(value) and leaves the stored
\* value empty; every poll after that one panics.
C3_YieldsOnce ==
  /\ Cardinality({i \in 1..Len(dvLog) : dvLog[i].ret[1] = "Ready"}) <= 1
  /\ \A i \in 1..Len(dvLog) :
       LET e == dvLog[i]
           yielded == \E j \in 1..(i - 1) : dvLog[j].ret[1] = "Ready"
       IN  e.elapsed >= e.before.duration =>
             IF yielded
               THEN e.ret = <<"Panic">>
               ELSE /\ e.ret = <<"Ready", dvLog[1].before.value[1]>>
                    /\ e.after.value = None

C3_Witness ==
  \E i, j \in 1..Len(dvLog) :
    /\ i < j
    /\ dvLog[i].ret[1] = "Ready"
    /\ dvLog[j].ret = <<"Panic">>

\* C5: poll never returns Ready before the duration has elapsed; a poll made
\* while elapsed < duration returns Pending, calls wake_by_ref once and
\* leaves the stored value in place.
C5_PendingUntilElapsed ==
  \A i \in 1..Len(dvLog) :
    LET e == dvLog[i]
    IN  /\ e.ret[1] = "Ready" => e.elapsed >= e.before.duration
        /\ e.elapsed < e.before.duration =>
             /\ e.ret = <<"Pending">>
             /\ e.wakesAfter = e.wakesBefore + 1
             /\ e.after.value = e.before.value
             /\ e.after.value # None

C5_Witness ==
  \E i, j \in 1..Len(dvLog) :
    /\ i < j
    /\ dvLog[i].ret = <<"Pending">> /\ dvLog[i].elapsed > 0
    /\ dvLog[j].ret[1] = "Ready"

\* C4: main's executor loop terminates; the final result is 84; and the
\* top-level future is never polled again once it has returned Ready.
C4_ExecutorTerminates ==
  /\ <>(mainPc = "finished")
  /\ [](mainPc = "finished" => final_result = Some(84) /\ topLast = <<"Ready", 84>>)
  /\ [](pollsAfterReady = 0 /\ mainPc # "panicked")

C4_Witness ==
  /\ mainPc = "finished"
  /\ final_result = Some(84)
  /\ now >= 2 * DELAY_MS
  /\ wakes > 2

\* C6: push_str returns Err("String too long for buffer") exactly when
\* len + the byte length of s exceeds N. A push that fills the buffer
\* exactly succeeds; "Too long" into an empty ConstString<5> fails.
C6_TooLongExactly ==
  csLast.ret # <<"none">> =>
    LET need == csLast.lenBefore + Len(as_bytes(csLast.arg))
    IN  /\ csLast.ret = Err("String too long for buffer") <=> need > csN
        /\ need = csN => csLast.ret = Ok
        /\ csN = 5 /\ csLast.lenBefore = 0 /\ csLast.arg = TooLong
             => csLast.ret = Err("String too long for buffer")

\* A buffer filled to exactly N, which then refuses "Too long".
C6_Witness ==
  /\ csN = 5
  /\ csLen = csN
  /\ csLast.arg = TooLong
  /\ csLast.ret = Err("String too long for buffer")

\* C7: a successful push_str appends. What deref and Display show afterwards
\* is what they showed before followed by s, len has grown by the byte
\* length of s, and the contents are the pushed strings in order.
C7_PushAppends ==
  /\ deref(csSelf) = {csPushed}
  /\ csLast.ret = Ok =>
       /\ \A before \in csLast.shownBefore : deref(csSelf) = {before \o csLast.arg}
       /\ csLen = csLast.lenBefore + Len(as_bytes(csLast.arg))

\* "Hello, " then "World!" in a ConstString<16> reads "Hello, World!".
C7_Witness ==
  /\ csN = 16
  /\ csLast.ret = Ok
  /\ csLast.shownBefore = {Hello}
  /\ csLast.arg = World
  /\ deref(csSelf) = {<<72, 101, 108, 108, 111, 44, 32, 87, 111, 114, 108, 100, 33>>}
  /\ csLen = 13

\* C8: after any sequence of push_str calls, failed ones included, the bytes
\* data[..len] are valid UTF-8.
C8_ValidUtf8 == ValidUtf8(Slice(csSelf))

\* A buffer holding a two-byte character, with one byte free, has just
\* refused a three-byte character.
C8_Witness ==
  /\ csLen = csN - 1
  /\ \E i \in 1..Len(csPushed) : csPushed[i] >= 128
  /\ csLast.arg = <<8364>>
  /\ csLast.ret[1] = "Err"

\* C9: alloc returns null, without asking System, for every size that is not
\* a multiple of 4 and for every alignment above 4; every other request goes
\* to System with alignment 4, and System's pointer is returned.
C9_AllocRejectsOrDelegates ==
  alLast.called =>
    LET size == alLast.layout.size
        align == alLast.layout.align
    IN  /\ size % 4 # 0 \/ align > 4 => alLast.ret = NULL /\ alLast.sys = None
        /\ size % 4 = 0 /\ align <= 4 =>
             /\ alLast.sys = Some([size |-> size, align |-> 4])
             /\ alLast.ret = alLast.sysRet

\* A delegated request succeeded, and a later one was refused for its
\* alignment alone.
C9_Witness ==
  /\ heap # {}
  /\ \E b \in heap : b.asked.align < 4
  /\ alLast.called
  /\ alLast.layout.size % 4 = 0
  /\ alLast.layout.align > 4
  /\ alLast.ret = NULL

=============================================================================
